---------------------------- MODULE Spec2Model ----------------------------
(***************************************************************************)
(* State-machine model of the MangaExtension popup: the in-memory manga    *)
(* list, the add/edit form with its asynchronous submission, the list-item *)
(* click handlers, the delete and link-reload dialogs and the batched      *)
(* renderer.                                                               *)
(*                                                                         *)
(* Manga objects live in `heap` (object identity = the key), `mangaList`   *)
(* is the array of references.  A reference held by a closure (a pending   *)
(* submission, a dialog listener, a scheduled batch) stays valid after the *)
(* object left the list, as in JavaScript.                                 *)
(*                                                                         *)
(* Every `await getCurrentTabInfo()` splits its handler in two actions:    *)
(* the synchronous part up to the await, and the continuation, which runs  *)
(* later with the tab info the browser answered.                           *)
(***************************************************************************)
EXTENDS Integers, Sequences, FiniteSets, TLC

\* ------------------------------------------------------------------ bounds
MaxEvents == 5       \* events (handler runs, continuations, clock ticks) of a run
MaxManga == 2        \* manga objects of a run, the loaded ones included
MaxPending == 2      \* handlers suspended at an await at the same time
MaxListeners == 2    \* one-shot listeners registered on one confirm button
MaxChapters == 2     \* largest chapter count reached by "+"
MaxTime == 2         \* latest time of the clock
MaxAmount == 2       \* largest `amount` of a direct handleChapterUpdate call
MaxRender == 7       \* longest list handed to loadMangas in SpecRender
MaxBatch == 3        \* largest batchSize handed to loadMangas in SpecRender
MaxLoads == 2        \* rebuilds in progress at the same time in SpecRender
MaxSuffix == 2       \* largest n of a stored title "A (n)" in SpecTitle
MaxClicks == 3       \* clicks of a run of SpecClick

MaxTitleLen == 23    \* longest title rendered in SpecTitleText
MaxScrollList == 4   \* longest list of SpecScroll
MaxScrollTime == 300 \* latest time of the clock in SpecScroll

\* default value of loadMangas' batchSize parameter
DefaultBatch == 3

\* default value of debounce's wait parameter
DefaultWait == 100

\* the number of list items the scroll container shows without scrolling:
\* initializeBlur takes a list of more than 3 for one that overflows
Viewport == 3

\* ------------------------------------------------------------ input domains
\* What the user may have typed in the form when a field is edited.  Values
\* carry no surrounding white space, so the `.trim()` of getMangaFormData is
\* the identity on them.  readChapters is the raw text of the input field, a
\* sequence of characters; a form that was never filled holds the empty one.
FormInputs ==
    { [image |-> "",  title |-> "A", link |-> "x", readChapters |-> <<"1">>,      favorite |-> FALSE],
      [image |-> "i", title |-> "B", link |-> "",  readChapters |-> <<"-", "1">>, favorite |-> TRUE],
      [image |-> "",  title |-> "",  link |-> "",  readChapters |-> <<"1", "e", "2">>, favorite |-> FALSE],
      [image |-> "",  title |-> "A", link |-> "",  readChapters |-> <<"a">>,      favorite |-> FALSE] }

\* What chrome.tabs.query answers: no active tab, or a tab with title and URL.
TabInfos ==
    { [title |-> "",  url |-> ""],
      [title |-> "A", url |-> "y"] }

SortOptions == {"default", "chaptersRead"}

\* The lists the storage gateway may return at startup: what an earlier
\* session saved, at time 0.  The popup starts at time 1.
SavedA ==
    [image |-> "", title |-> "A", link |-> "x", isImageWorking |-> TRUE,
     readChapters |-> 1, favorite |-> FALSE, dayAdded |-> 0, lastRead |-> 0]

SavedB ==
    [image |-> "i", title |-> "B", link |-> "y", isImageWorking |-> TRUE,
     readChapters |-> 0, favorite |-> TRUE, dayAdded |-> 0, lastRead |-> 0]

InitialStores == {<<>>, <<SavedA>>, <<SavedA, SavedB>>}

\* ------------------------------------------------------------------ helpers
Range(s) == {s[i] : i \in DOMAIN s}

RemoveAt(s, i) == SubSeq(s, 1, i - 1) \o SubSeq(s, i + 1, Len(s))

Min(a, b) == IF a < b THEN a ELSE b

DigitChars == <<"0", "1", "2", "3", "4", "5", "6", "7", "8", "9">>

IsDigit(c) == \E d \in 1..10 : DigitChars[d] = c

DigitValue(c) == (CHOOSE d \in 1..10 : DigitChars[d] = c) - 1

\* value of the longest prefix of decimal digits of s, given the value so far
RECURSIVE DigitsValue(_, _)
DigitsValue(s, acc) ==
    IF s = <<>> \/ ~IsDigit(Head(s)) THEN acc
    ELSE DigitsValue(Tail(s), 10 * acc + DigitValue(Head(s)))

\* JavaScript parseInt(s, 10) on a trimmed string: optional sign, then the
\* longest run of digits; NaN when there is none.  The result is a record:
\* nan tells a NaN from a number.
parseInt(s) ==
    LET signed == s # <<>> /\ Head(s) \in {"-", "+"}
        body   == IF signed THEN Tail(s) ELSE s
    IN  IF body = <<>> \/ ~IsDigit(Head(body)) THEN [nan |-> TRUE, value |-> 0]
        ELSE IF signed /\ Head(s) = "-" THEN [nan |-> FALSE, value |-> 0 - DigitsValue(body, 0)]
        ELSE [nan |-> FALSE, value |-> DigitsValue(body, 0)]

isNaN(r) == r.nan

\* String(n) of an integer, as the characters of an input field
RECURSIVE NatChars(_)
NatChars(n) ==
    IF n < 10 THEN <<DigitChars[n + 1]>>
    ELSE NatChars(n \div 10) \o <<DigitChars[(n % 10) + 1]>>

NumberChars(n) == IF n < 0 THEN <<"-">> \o NatChars(0 - n) ELSE NatChars(n)

\* --------------------------------------------------------------- variables
VARIABLES
    mangaList,       \* the global array: sequence of object ids
    heap,            \* object id -> manga object
    form,            \* #chapterForm: its inputs, dataset and visibility
    pending,         \* handlers suspended at `await getCurrentTabInfo()`
    alertModal,      \* #alertModal: display and text
    confirmDialog,   \* #confirmationDialog and its three buttons' listeners
    reloadDialog,    \* #reloadLink and its three buttons' listeners
    container,       \* #mangaListContainer: sequence of .manga-item elements
    frames,          \* loadBatch closures scheduled by requestAnimationFrame
    sortOption,      \* #sortOption value
    storage,         \* what saveMangas wrote last
    now,             \* the clock read by new Date()
    scroll,          \* #scrollContainer: scrollTop, the two blur indicators and the
                     \* timers of the debounced scroll listener
    last,            \* history: the handler that ran last, how it ended, whether it
                     \* called the list rebuild
    steps            \* history: the number of events so far

vars == <<mangaList, heap, form, pending, alertModal, confirmDialog, reloadDialog,
          container, frames, sortOption, storage, now, scroll, last, steps>>

\* ------------------------------------------------------------------- store
\* a lookup that stops at the first record
isNameUsedFirstOnly(title) ==
    mangaList # <<>> /\ heap[mangaList[1]].title = title

isNameUsed(title) == \E i \in DOMAIN mangaList : heap[mangaList[i]].title = title

\* a lookup that falls back on the first record
FindByTitleOrFirst(list, h, title) ==
    IF \E i \in DOMAIN list : h[list[i]].title = title
    THEN list[CHOOSE i \in DOMAIN list :
                /\ h[list[i]].title = title
                /\ \A j \in 1..(i - 1) : h[list[j]].title # title]
    ELSE IF list # <<>> THEN list[1] ELSE 0

\* mangaList.find(m => m.title === title): the object id, 0 when undefined
FindByTitle(list, h, title) ==
    IF \E i \in DOMAIN list : h[list[i]].title = title
    THEN list[CHOOSE i \in DOMAIN list :
                /\ h[list[i]].title = title
                /\ \A j \in 1..(i - 1) : h[list[j]].title # title]
    ELSE 0

\* the records the list holds, in order, by value
StoreView(list, h) == [i \in DOMAIN list |-> h[list[i]]]

\* saveMangas(): the storage gateway receives the list as it is now
saveMangas(list, h) == StoreView(list, h)

NewId == Cardinality(DOMAIN heap) + 1

EmptyForm ==
    [image |-> "", title |-> "", link |-> "", readChapters |-> <<>>, favorite |-> FALSE,
     editMode |-> FALSE, mangaTitle |-> "", shown |-> FALSE]

HiddenDialog == [shown |-> FALSE, cancel |-> FALSE, cross |-> FALSE, confirm |-> <<>>]

\* ---------------------------------------------------------------- renderer
\* createMangaElement: the .manga-item of one manga, as far as handlers read or
\* write it: dataset.title, the title text, the src of #manga-image, the
\* #chapter-count text
\* and the #date text.  eid
\* is the element's identity inside the container.
\* batch is history: the ordinal of the append that put the element in the
\* container, counted from the last time the container was emptied.
\* a label built without the separating space
chapterLabelNoSpace(readChapters) == "Ch." \o ToString(readChapters)

chapterLabel(readChapters) == "Ch. " \o ToString(readChapters)

\* handleImageTheme(): the placeholder of the current theme.  No handler of
\* the model changes the theme, so it is one value.
handleImageTheme == "fallback-image"

\* the text of the title paragraph: title.substring(0, 22 - 3) are the first
\* 19 characters
titleText(title) ==
    IF Len(title) < 20 THEN title ELSE SubSeq(title, 1, 22 - 3) \o "..."

createMangaElement(eid, batch, m, h) ==
    [eid |-> eid,
     batch |-> batch,
     title |-> h[m].title,
     text |-> titleText(h[m].title),
     src |-> IF h[m].isImageWorking THEN h[m].image ELSE handleImageTheme,
     chapters |-> chapterLabel(h[m].readChapters),
     date |-> h[m].lastRead]

MaxEid(cont) ==
    IF cont = <<>> THEN 0
    ELSE CHOOSE x \in {cont[k].eid : k \in DOMAIN cont} :
            \A k \in DOMAIN cont : cont[k].eid <= x

Appends(cont) ==
    IF cont = <<>> THEN 0
    ELSE CHOOSE x \in {cont[k].batch : k \in DOMAIN cont} :
            \A k \in DOMAIN cont : cont[k].batch <= x

\* a loop that runs to endIndex inclusive
loadBatchInclusive(cl, cont, h) ==
    LET endIndex == Min(cl.index + cl.batch + 1, Len(cl.list))
        base     == MaxEid(cont)
        fragment == [k \in 1..(IF endIndex > cl.index THEN endIndex - cl.index ELSE 0) |->
                        createMangaElement(base + k, Appends(cont) + 1, cl.list[cl.index + k], h)]
        next     == cl.index + cl.batch
    IN  [container |-> cont \o fragment,
         scheduled |-> IF next < Len(cl.list)
                       THEN <<[list |-> cl.list, index |-> next, batch |-> cl.batch]>>
                       ELSE <<>>,
         appended  |-> Len(fragment)]

\* One run of the closure loadBatch (cl = its captured inputList, currentIndex
\* and batchSize): the fragment of the next batch is appended, currentIndex
\* advances, and the closure is scheduled again when more is left.
\* The result: the container, the closure to schedule (or none), the size of
\* the appended fragment.
loadBatch(cl, cont, h) ==
    LET endIndex == Min(cl.index + cl.batch, Len(cl.list))
        base     == MaxEid(cont)
        fragment == [k \in 1..(IF endIndex > cl.index THEN endIndex - cl.index ELSE 0) |->
                        createMangaElement(base + k, Appends(cont) + 1, cl.list[cl.index + k], h)]
        next     == cl.index + cl.batch
    IN  [container |-> cont \o fragment,
         scheduled |-> IF next < Len(cl.list)
                       THEN <<[list |-> cl.list, index |-> next, batch |-> cl.batch]>>
                       ELSE <<>>,
         appended  |-> Len(fragment)]

\* loadMangas(inputList, batchSize): the container is emptied, the first batch
\* is loaded at once, the rest is left to animation frames.
loadMangas(inputList, batchSize, fr, h) ==
    LET b == loadBatch([list |-> inputList, index |-> 0, batch |-> batchSize], <<>>, h)
    IN  [container |-> b.container, frames |-> fr \o b.scheduled, appended |-> b.appended]

\* insertion of m into a list sorted by descending readChapters
RECURSIVE InsertByChapters(_, _, _)
InsertByChapters(sorted, m, h) ==
    IF sorted = <<>> THEN <<m>>
    ELSE IF h[Head(sorted)].readChapters >= h[m].readChapters
         THEN <<Head(sorted)>> \o InsertByChapters(Tail(sorted), m, h)
         ELSE <<m>> \o sorted

RECURSIVE SortByChapters(_, _)
SortByChapters(list, h) ==
    IF list = <<>> THEN <<>>
    ELSE InsertByChapters(SortByChapters(SubSeq(list, 1, Len(list) - 1), h), list[Len(list)], h)

\* loadFilteredMangas(): the full rebuild of the list in the selected order
loadFilteredMangas(list, h, sort, fr) ==
    loadMangas(IF sort = "chaptersRead" THEN SortByChapters(list, h) ELSE list,
               DefaultBatch, fr, h)

\* Emptying the container detaches every element a listener of the delete
\* dialog still holds (its parentElement becomes null): elem 0.
DetachAll(dlg) ==
    [dlg EXCEPT !.confirm = [k \in DOMAIN dlg.confirm |-> [dlg.confirm[k] EXCEPT !.elem = 0]]]

\* an owner lookup that answers the first record when none matches
getClosestMangaOrFirst(e) ==
    IF \E i \in DOMAIN mangaList : heap[mangaList[i]].title = container[e].title
    THEN FindByTitle(mangaList, heap, container[e].title)
    ELSE IF mangaList # <<>> THEN mangaList[1] ELSE 0

\* getClosestManga for a click inside container[e]: the object, 0 when null
getClosestManga(e) == FindByTitle(mangaList, heap, container[e].title)

\* -------------------------------------------------------------------- form
\* a suffix that is tried once and not checked
NextFreeTitleUnchecked(title, counter) ==
    title \o " (" \o ToString(counter) \o ")"

\* generateUniqueTitle: the title itself, or the first "title (n)" not in use
RECURSIVE NextFreeTitle(_, _)
NextFreeTitle(title, counter) ==
    LET newTitle == title \o " (" \o ToString(counter) \o ")"
    IN  IF isNameUsed(newTitle) THEN NextFreeTitle(title, counter + 1) ELSE newTitle

generateUniqueTitle(title) ==
    IF ~isNameUsed(title) THEN title ELSE NextFreeTitle(title, 1)

\* getMangaFormData after its await.  p holds what was read before the await
\* (link, title and readChapters inputs); image and favorite are read from the
\* form now.
getMangaFormData(p, tab) ==
    LET readChapters == parseInt(p.readChapters)
    IN  [image |-> form.image,
         title |-> IF p.title # "" THEN p.title ELSE generateUniqueTitle(tab.title),
         link |-> IF p.link # "" THEN p.link ELSE tab.url,
         isImageWorking |-> TRUE,
         readChapters |-> IF isNaN(readChapters) \/ readChapters.value < 0
                          THEN 0 ELSE readChapters.value,
         favorite |-> form.favorite]

\* a validation that forgets the uniqueness rule
validateTitleOnly(mangaData, originalTitle) ==
    IF mangaData.title = "" THEN "modal-title-required" ELSE "null"

\* a uniqueness rule that counts the edited manga's own title
validateAgainstAll(mangaData, originalTitle) ==
    IF mangaData.title = "" THEN "modal-title-required"
    ELSE IF isNameUsed(mangaData.title) THEN "modal-unique-title-required"
    ELSE "null"

validateMangaData(mangaData, originalTitle) ==
    IF mangaData.title = "" THEN "modal-title-required"
    ELSE IF mangaData.title # originalTitle /\ isNameUsed(mangaData.title)
         THEN "modal-unique-title-required"
    ELSE "null"

\* hasChanges: TRUE when the submitted data EQUALS the stored manga
hasChanges(manga, mangaData) ==
    /\ manga.image = mangaData.image
    /\ manga.link = mangaData.link
    /\ manga.readChapters = mangaData.readChapters
    /\ manga.title = mangaData.title
    /\ manga.favorite = mangaData.favorite

\* resetFormValues: form.reset() and both dataset entries deleted
resetFormValues(f) == [EmptyForm EXCEPT !.shown = f.shown]

hideMangaForm(f) == [f EXCEPT !.shown = FALSE]

\* fillMangaForm followed by the dataset writes and showMangaForm
fillMangaForm(f, manga) ==
    [f EXCEPT !.image = manga.image, !.title = manga.title, !.link = manga.link,
              !.readChapters = NumberChars(manga.readChapters),
              !.favorite = manga.favorite]

\* a modal that gets its text and is not displayed
showModalHidden(messageKey) == [shown |-> FALSE, text |-> messageKey]

showModal(messageKey) == [shown |-> TRUE, text |-> messageKey]

\* ------------------------------------------------------ scroll and blurs
\* The scroll container with both indicators hidden (class opacity-0) and no
\* timer.  timeout is the variable of debounce's closure, 0 while undefined;
\* timers are the timers setTimeout started and that neither ran nor were
\* cleared; created counts the timers started, which numbers them.
\* lastEvent and calls are history: the time of the latest scroll event, and
\* the runs of handleBlur by a timer since then.
HiddenBlurs ==
    [scrollTop |-> 0, topBlur |-> FALSE, bottomBlur |-> FALSE,
     timeout |-> 0, timers |-> {}, created |-> 0, lastEvent |-> 0, calls |-> 0]

\* Heights in list items: the container shows Viewport items.
scrollHeight(cont) == IF Len(cont) > Viewport THEN Len(cont) ELSE Viewport

MaxScrollTop(cont) == scrollHeight(cont) - Viewport

\* initializeBlur's animation-frame callback
initializeBlur(s, list) ==
    IF Len(list) > 3 THEN [s EXCEPT !.bottomBlur = TRUE] ELSE s

\* handleBlur: classList.toggle('opacity-0', force) hides when force holds
handleBlur(s, cont) ==
    LET scrollTop == s.scrollTop
        fullHeight == scrollTop + Viewport
    IN  [s EXCEPT !.topBlur = ~(scrollTop = 0),
                  !.bottomBlur = ~(fullHeight >= scrollHeight(cont))]

clearTimeout(timers, id) == {t \in timers : t.id # id}

\* a debounce that starts a timer and clears none
debouncedKeepsTimer(s, t) ==
    LET id == s.created + 1
    IN  [s EXCEPT !.timers = s.timers \cup {[id |-> id, due |-> t + DefaultWait]},
                  !.timeout = id, !.created = id, !.lastEvent = t, !.calls = 0]

\* The function debounce(handleBlur) returned, called at time t: the timer
\* of the previous call is cleared and a new one is started.
debounced(s, t) ==
    LET id == s.created + 1
    IN  [s EXCEPT !.timers = clearTimeout(s.timers, s.timeout)
                                \cup {[id |-> id, due |-> t + DefaultWait]},
                  !.timeout = id, !.created = id, !.lastEvent = t, !.calls = 0]

\* The browser lays the container out again: a scrollTop beyond the content
\* is clamped, and the change is a scroll event.
Relayout(s, cont, t) ==
    IF s.scrollTop > MaxScrollTop(cont)
    THEN debounced([s EXCEPT !.scrollTop = MaxScrollTop(cont)], t)
    ELSE s

\* The end of loadMangas: handleBlur() on the container as the first batch
\* left it.
BlurOnLoad(s, cont, t) == handleBlur(Relayout(s, cont, t), cont)

\* One more event of the run.
Count ==
    /\ steps < MaxEvents
    /\ steps' = steps + 1

\* The clock advances.
Tick ==
    /\ Count
    /\ now < MaxTime
    /\ now' = now + 1
    /\ UNCHANGED <<scroll, mangaList, heap, form, pending, alertModal, confirmDialog, reloadDialog,
                   container, frames, sortOption, storage, last>>

\* The add button: the form is shown.
showAddForm ==
    /\ Count
    /\ ~form.shown
    /\ form' = [form EXCEPT !.shown = TRUE]
    /\ last' = [op |-> "showAddForm", manga |-> 0, result |-> "", rebuilt |-> FALSE]
    /\ UNCHANGED <<scroll, mangaList, heap, pending, alertModal, confirmDialog, reloadDialog,
                   container, frames, sortOption, storage, now>>

\* The user edits the fields of the shown form.
UserInput(f) ==
    /\ Count
    /\ form.shown
    /\ form' = [form EXCEPT !.image = f.image, !.title = f.title, !.link = f.link,
                            !.readChapters = f.readChapters, !.favorite = f.favorite]
    /\ form' # form
    /\ UNCHANGED <<scroll, mangaList, heap, pending, alertModal, confirmDialog, reloadDialog,
                   container, frames, sortOption, storage, now, last>>

\* handleFormSubmission up to the first await: the mode and the target are
\* read from the dataset, the manga is looked up, and getMangaFormData reads
\* the link, title and readChapters inputs before it awaits the tab info.
\* `seen` is history: the manga as it was when the submission started.
\* `submitted` is history too: the image and favorite inputs at the submit
\* event, which getMangaFormData reads only after the await.
handleFormSubmission ==
    /\ Count
    /\ form.shown
    /\ Len(pending) < MaxPending
    /\ LET inputs == [link |-> form.link, title |-> form.title,
                      readChapters |-> form.readChapters,
                      submitted |-> [image |-> form.image, favorite |-> form.favorite]]
       IN  IF form.editMode /\ form.mangaTitle # ""
           THEN LET manga == FindByTitle(mangaList, heap, form.mangaTitle)
                IN  IF manga # 0
                    THEN /\ pending' = Append(pending, [kind |-> "update", manga |-> manga,
                                                         seen |-> heap[manga]] @@ inputs)
                         /\ last' = [op |-> "submit", manga |-> manga, result |-> "await", rebuilt |-> FALSE]
                    ELSE /\ pending' = pending
                         /\ last' = [op |-> "submit", manga |-> 0, result |-> "not-found", rebuilt |-> FALSE]
           ELSE /\ pending' = Append(pending, [kind |-> "add", manga |-> 0] @@ inputs)
                /\ last' = [op |-> "submit", manga |-> 0, result |-> "await", rebuilt |-> FALSE]
    /\ UNCHANGED <<scroll, mangaList, heap, form, alertModal, confirmDialog, reloadDialog,
                   container, frames, sortOption, storage, now>>

\* addNewManga after `await getMangaFormData()`, for the suspended submission
\* pending[i] and the tab info the browser answered.
addNewManga(i, tab) ==
    /\ Count
    /\ i \in DOMAIN pending
    /\ pending[i].kind = "add"
    /\ LET mangaData == getMangaFormData(pending[i], tab)
           validationError == validateMangaData(mangaData, "")
           id == NewId
           newManga == mangaData @@ [dayAdded |-> now, lastRead |-> now]
           heap2 == heap @@ (id :> newManga)
           list2 == Append(mangaList, id)
           view == loadFilteredMangas(list2, heap2, sortOption, frames)
       IN  IF validationError # "null"
           THEN /\ alertModal' = showModal(validationError)
                /\ last' = [op |-> "add", manga |-> 0, result |-> validationError, rebuilt |-> FALSE]
                /\ UNCHANGED <<mangaList, heap, form, confirmDialog, container, frames, storage, scroll>>
           ELSE /\ id <= MaxManga
                /\ heap' = heap2
                /\ mangaList' = list2
                /\ form' = hideMangaForm(resetFormValues(form))
                /\ container' = view.container
                /\ frames' = view.frames
                /\ confirmDialog' = DetachAll(confirmDialog)
                /\ storage' = saveMangas(list2, heap2)
                /\ scroll' = BlurOnLoad(scroll, view.container, now)
                /\ last' = [op |-> "add", manga |-> id, result |-> "saved", rebuilt |-> TRUE]
                /\ UNCHANGED alertModal
    /\ pending' = RemoveAt(pending, i)
    /\ UNCHANGED <<reloadDialog, sortOption, now>>

\* closeAllDialogs(): the form and the dialogs are hidden
closeAllDialogs(f) == hideMangaForm(f)

\* handleLinkReload(manga) up to its await: #reloadLink is looked up and the
\* tab info is requested.
handleLinkReloadStart(pend, manga) == Append(pend, [kind |-> "reload", manga |-> manga])

\* updateMangaDetails(manga) after `await getMangaFormData()`.
updateMangaDetails(i, tab) ==
    /\ Count
    /\ i \in DOMAIN pending
    /\ pending[i].kind = "update"
    /\ LET manga == pending[i].manga
           mangaData == getMangaFormData(pending[i], tab)
           validationError == validateMangaData(mangaData, heap[manga].title)
           heap2 == [heap EXCEPT ![manga] = mangaData @@ [lastRead |-> now] @@ heap[manga]]
           view == loadFilteredMangas(mangaList, heap2, sortOption, frames)
       IN  IF validationError # "null"
           THEN /\ alertModal' = showModal(validationError)
                /\ pending' = RemoveAt(pending, i)
                /\ last' = [op |-> "update", manga |-> manga, result |-> validationError, rebuilt |-> FALSE]
                /\ UNCHANGED <<heap, form, confirmDialog, container, frames, storage, scroll>>
           ELSE IF hasChanges(heap[manga], mangaData)
           THEN /\ pending' = handleLinkReloadStart(RemoveAt(pending, i), manga)
                /\ last' = [op |-> "update", manga |-> manga, result |-> "reload", rebuilt |-> FALSE]
                /\ UNCHANGED <<heap, form, alertModal, confirmDialog, container, frames, storage, scroll>>
           ELSE /\ heap' = heap2
                /\ form' = hideMangaForm(resetFormValues(form))
                /\ container' = view.container
                /\ frames' = view.frames
                /\ confirmDialog' = DetachAll(confirmDialog)
                /\ storage' = saveMangas(mangaList, heap2)
                /\ pending' = RemoveAt(pending, i)
                /\ scroll' = BlurOnLoad(scroll, view.container, now)
                /\ last' = [op |-> "update", manga |-> manga, result |-> "saved", rebuilt |-> TRUE]
                /\ UNCHANGED alertModal
    /\ UNCHANGED <<mangaList, reloadDialog, sortOption, now>>

\* handleLinkReload(manga) after `await getCurrentTabInfo()`: nothing to do
\* when the link is the tab's URL; otherwise the dialog is shown and the three
\* one-shot listeners are added.  The confirm listener captures manga and
\* newUrl.
handleLinkReload(i, tab) ==
    /\ Count
    /\ i \in DOMAIN pending
    /\ pending[i].kind = "reload"
    /\ heap[pending[i].manga].link = tab.url \/ Len(reloadDialog.confirm) < MaxListeners
    /\ LET manga == pending[i].manga
       IN  IF heap[manga].link = tab.url
           THEN /\ form' = closeAllDialogs(form)
                /\ last' = [op |-> "reload", manga |-> manga, result |-> "same-link", rebuilt |-> FALSE]
                /\ UNCHANGED reloadDialog
           ELSE /\ reloadDialog' = [shown |-> TRUE, cancel |-> TRUE, cross |-> TRUE,
                                    confirm |-> Append(reloadDialog.confirm,
                                                       [manga |-> manga, url |-> tab.url])]
                /\ last' = [op |-> "reload", manga |-> manga, result |-> "dialog", rebuilt |-> FALSE]
                /\ UNCHANGED form
    /\ pending' = RemoveAt(pending, i)
    /\ UNCHANGED <<scroll, mangaList, heap, alertModal, confirmDialog, container, frames,
                   sortOption, storage, now>>

\* One click listener of #confirmReload, run on the state s the listeners
\* before it left: [heap, storage, shown, form, fired].
confirmReloadListener(s, l) ==
    IF s.heap[l.manga].link = l.url THEN s
    ELSE LET heap2 == [s.heap EXCEPT ![l.manga].link = l.url]
         IN  [heap |-> heap2,
              storage |-> saveMangas(mangaList, heap2),
              shown |-> FALSE,
              form |-> closeAllDialogs(s.form),
              fired |-> s.fired + 1]

RECURSIVE RunReloadListeners(_, _)
RunReloadListeners(s, ls) ==
    IF ls = <<>> THEN s
    ELSE RunReloadListeners(confirmReloadListener(s, Head(ls)), Tail(ls))

\* A click on #confirmReload: every listener registered on it runs, in the
\* order of registration, and is removed (once: true).
clickConfirmReload ==
    /\ Count
    /\ reloadDialog.shown
    /\ LET s == RunReloadListeners([heap |-> heap, storage |-> storage, shown |-> TRUE,
                                    form |-> form, fired |-> 0],
                                   reloadDialog.confirm)
       IN  /\ heap' = s.heap
           /\ storage' = s.storage
           /\ form' = s.form
           /\ reloadDialog' = [reloadDialog EXCEPT !.shown = s.shown, !.confirm = <<>>]
           /\ last' = [op |-> "confirmReload", manga |-> 0, result |-> ToString(s.fired), rebuilt |-> FALSE]
    /\ UNCHANGED <<scroll, mangaList, pending, alertModal, confirmDialog, container, frames,
                   sortOption, now>>

\* A click on #cancelReload or #cancelReloadCross: closeDialog, once.
clickCancelReload(button) ==
    /\ Count
    /\ reloadDialog.shown
    /\ reloadDialog' = IF reloadDialog[button]
                       THEN [reloadDialog EXCEPT !.shown = FALSE, ![button] = FALSE]
                       ELSE reloadDialog
    /\ last' = [op |-> "cancelReload", manga |-> 0, result |-> button, rebuilt |-> FALSE]
    /\ UNCHANGED <<scroll, mangaList, heap, form, pending, alertModal, confirmDialog,
                   container, frames, sortOption, storage, now>>

\* The close button of the alert modal.
clickCloseModal ==
    /\ Count
    /\ alertModal.shown
    /\ alertModal' = [alertModal EXCEPT !.shown = FALSE]
    /\ UNCHANGED <<scroll, mangaList, heap, form, pending, confirmDialog, reloadDialog,
                   container, frames, sortOption, storage, now, last>>

\* ----------------------------------------------------- list-item handlers
\* handleMangaEdition(manga), reached by a click on the edit control of
\* container[e].
handleMangaEdition(e) ==
    /\ Count
    /\ e \in DOMAIN container
    /\ getClosestManga(e) # 0
    /\ LET manga == getClosestManga(e)
       IN  /\ form' = [fillMangaForm(form, heap[manga]) EXCEPT
                          !.editMode = TRUE, !.mangaTitle = heap[manga].title, !.shown = TRUE]
           /\ last' = [op |-> "edit", manga |-> manga, result |-> "", rebuilt |-> FALSE]
    /\ UNCHANGED <<scroll, mangaList, heap, pending, alertModal, confirmDialog, reloadDialog,
                   container, frames, sortOption, storage, now>>

\* handleFavoriteToggle(manga, event), reached by a click on the star of
\* container[e].  The classes it toggles on the star are not modelled.
handleFavoriteToggle(e) ==
    /\ Count
    /\ e \in DOMAIN container
    /\ getClosestManga(e) # 0
    /\ LET manga == getClosestManga(e)
           heap2 == [heap EXCEPT ![manga].favorite = ~heap[manga].favorite]
       IN  /\ heap' = heap2
           /\ storage' = saveMangas(mangaList, heap2)
           /\ last' = [op |-> "fav", manga |-> manga, result |-> "saved", rebuilt |-> FALSE]
    /\ UNCHANGED <<scroll, mangaList, form, pending, alertModal, confirmDialog, reloadDialog,
                   container, frames, sortOption, now>>

\* a decrement that only clamps and never subtracts
updatedChaptersClampOnly(readChapters, operation, amount) ==
    IF operation = "+" THEN readChapters + amount
    ELSE IF readChapters <= 0 THEN 0
    ELSE readChapters

\* The new readChapters of handleChapterUpdate.  readChapters is an integer,
\* on which parseInt(x, 10) || 0 is the identity.
updatedChapters(readChapters, operation, amount) ==
    IF operation = "+" THEN readChapters + amount
    ELSE IF readChapters <= 0 THEN 0
    ELSE readChapters - amount

\* handleChapterUpdate(manga, operation, amount, event) for an event inside
\* container[e].  getMaxChapters/handleMaxChapters keep a statistic that no
\* modelled state depends on.
handleChapterUpdate(e, operation, amount) ==
    /\ Count
    /\ e \in DOMAIN container
    /\ getClosestManga(e) # 0
    /\ LET manga == getClosestManga(e)
           amount2 == IF amount = 0 THEN 1 ELSE amount
           chapters == updatedChapters(heap[manga].readChapters, operation, amount2)
           heap2 == [heap EXCEPT ![manga].readChapters = chapters, ![manga].lastRead = now]
           cont2 == [container EXCEPT ![e].date = now,
                                      ![e].chapters = chapterLabel(chapters)]
           view == loadFilteredMangas(mangaList, heap2, sortOption, frames)
       IN  /\ chapters <= MaxChapters
           /\ heap' = heap2
           /\ storage' = saveMangas(mangaList, heap2)
           /\ IF sortOption = "chaptersRead"
              THEN /\ container' = view.container
                   /\ frames' = view.frames
                   /\ confirmDialog' = DetachAll(confirmDialog)
                   /\ scroll' = BlurOnLoad(scroll, view.container, now)
              ELSE /\ container' = cont2
                   /\ UNCHANGED <<frames, confirmDialog, scroll>>
           /\ last' = [op |-> operation, manga |-> manga,
                       result |-> ToString(heap[manga].readChapters), rebuilt |-> sortOption = "chaptersRead"]
    /\ UNCHANGED <<mangaList, form, pending, alertModal, reloadDialog, sortOption, now>>

\* handleMangaDeletion(manga, event): the dialog is shown and the three
\* one-shot listeners are added.  The confirm listener captures manga and the
\* event, whose target lies in the element container[e].  dismissed is
\* history: a cancel button was clicked while the listener was registered.
handleMangaDeletion(e) ==
    /\ Count
    /\ e \in DOMAIN container
    /\ getClosestManga(e) # 0
    /\ Len(confirmDialog.confirm) < MaxListeners
    /\ LET manga == getClosestManga(e)
       IN  /\ confirmDialog' = [shown |-> TRUE, cancel |-> TRUE, cross |-> TRUE,
                                confirm |-> Append(confirmDialog.confirm,
                                                   [manga |-> manga, elem |-> container[e].eid,
                                                    dismissed |-> FALSE])]
           /\ last' = [op |-> "delete", manga |-> manga, result |-> "dialog", rebuilt |-> FALSE]
    /\ UNCHANGED <<scroll, mangaList, heap, form, pending, alertModal, reloadDialog,
                   container, frames, sortOption, storage, now>>

\* deleteManga(manga, event) on the state s the listeners before it left:
\* [list, container, storage, shown, removed, threw].  The manga is filtered
\* out of the list; the element of the event is removed from its parent, which
\* throws a TypeError when the element is detached (parentElement is null), so
\* that saveMangas is not reached.
deleteManga(s, l) ==
    LET list2 == SelectSeq(s.list, LAMBDA m : m # l.manga)
        at == {k \in DOMAIN s.container : s.container[k].eid = l.elem}
    IN  IF l.elem # 0 /\ at # {}
        THEN [s EXCEPT !.list = list2,
                       !.container = RemoveAt(s.container, CHOOSE k \in at : TRUE),
                       !.storage = saveMangas(list2, heap),
                       !.removed = s.removed \cup {l.manga},
                       !.threw = FALSE]
        ELSE [s EXCEPT !.list = list2,
                       !.removed = s.removed \cup {l.manga},
                       !.threw = TRUE]

\* One click listener of #confirm: deleteManga, then closeDialog.
confirmListener(s, l) ==
    LET d == deleteManga(s, l)
    IN  IF d.threw THEN d ELSE [d EXCEPT !.shown = FALSE]

RECURSIVE RunConfirmListeners(_, _)
RunConfirmListeners(s, ls) ==
    IF ls = <<>> THEN s
    ELSE RunConfirmListeners(confirmListener(s, Head(ls)), Tail(ls))

\* A click on #confirm: every listener registered on it runs, in the order of
\* registration, and is removed (once: true).  An exception ends the listener
\* that threw it, not the dispatch.
clickConfirm ==
    /\ Count
    /\ confirmDialog.shown
    /\ LET s == RunConfirmListeners([list |-> mangaList, container |-> container,
                                     storage |-> storage, shown |-> TRUE,
                                     removed |-> {}, threw |-> FALSE],
                                    confirmDialog.confirm)
       IN  /\ mangaList' = s.list
           /\ container' = s.container
           /\ scroll' = Relayout(scroll, s.container, now)
           /\ storage' = s.storage
           /\ confirmDialog' = [confirmDialog EXCEPT !.shown = s.shown, !.confirm = <<>>]
           /\ last' = [op |-> "confirm", manga |-> 0,
                       result |-> ToString(Len(confirmDialog.confirm)), rebuilt |-> FALSE]
    /\ UNCHANGED <<heap, form, pending, alertModal, reloadDialog, frames, sortOption, now>>

\* A click on #cancelConfirm or #cancelConfirmCross: closeDialog, once.
clickCancelConfirm(button) ==
    /\ Count
    /\ confirmDialog.shown
    /\ confirmDialog' =
          IF confirmDialog[button]
          THEN [confirmDialog EXCEPT
                   !.shown = FALSE, ![button] = FALSE,
                   !.confirm = [k \in DOMAIN confirmDialog.confirm |->
                                   [confirmDialog.confirm[k] EXCEPT !.dismissed = TRUE]]]
          ELSE confirmDialog
    /\ last' = [op |-> "cancelConfirm", manga |-> 0, result |-> button, rebuilt |-> FALSE]
    /\ UNCHANGED <<scroll, mangaList, heap, form, pending, alertModal, reloadDialog,
                   container, frames, sortOption, storage, now>>

\* The sort selector changes: the list is rebuilt in the new order.
changeSortOption(option) ==
    /\ Count
    /\ option # sortOption
    /\ sortOption' = option
    /\ LET view == loadFilteredMangas(mangaList, heap, option, frames)
       IN  /\ container' = view.container
           /\ frames' = view.frames
           /\ scroll' = BlurOnLoad(scroll, view.container, now)
    /\ confirmDialog' = DetachAll(confirmDialog)
    /\ last' = [op |-> "sort", manga |-> 0, result |-> option, rebuilt |-> TRUE]
    /\ UNCHANGED <<mangaList, heap, form, pending, alertModal, reloadDialog, storage, now>>

\* The click listener of the container: the `actions` table.
clickFav(e) == handleFavoriteToggle(e)

clickDelete(e) == handleMangaDeletion(e)

clickEdit(e) == handleMangaEdition(e)

clickAddCap(e) == handleChapterUpdate(e, "+", 1)

clickRemoveCap(e) == handleChapterUpdate(e, "-", 1)

\* The popup after startup: the list the storage gateway returned is in
\* memory and rendered, the form and the dialogs are hidden.
Init ==
    /\ \E saved \in InitialStores :
          /\ heap = saved
          /\ mangaList = [i \in DOMAIN saved |-> i]
          /\ storage = saved
          /\ container = loadMangas([i \in DOMAIN saved |-> i], DefaultBatch, <<>>, saved).container
    /\ form = EmptyForm
    /\ pending = <<>>
    /\ alertModal = [shown |-> FALSE, text |-> ""]
    /\ confirmDialog = HiddenDialog
    /\ reloadDialog = HiddenDialog
    /\ frames = <<>>
    /\ sortOption = "default"
    /\ now = 1
    /\ scroll = initializeBlur(HiddenBlurs, mangaList)
    /\ last = [op |-> "init", manga |-> 0, result |-> "", rebuilt |-> FALSE]
    /\ steps = 0

\* Every event of the popup.  A list of at most DefaultBatch records is
\* rendered by the first batch alone, so that no loadBatch is ever scheduled.
Next ==
    \/ Tick
    \/ showAddForm
    \/ \E f \in FormInputs : UserInput(f)
    \/ handleFormSubmission
    \/ \E i \in 1..MaxPending, tab \in TabInfos : addNewManga(i, tab)
    \/ \E i \in 1..MaxPending, tab \in TabInfos : updateMangaDetails(i, tab)
    \/ \E i \in 1..MaxPending, tab \in TabInfos : handleLinkReload(i, tab)
    \/ clickConfirmReload
    \/ \E button \in {"cancel", "cross"} : clickCancelReload(button)
    \/ clickCloseModal
    \/ \E e \in 1..MaxManga : clickFav(e)
    \/ \E e \in 1..MaxManga : clickDelete(e)
    \/ \E e \in 1..MaxManga : clickEdit(e)
    \/ \E e \in 1..MaxManga : clickAddCap(e)
    \/ \E e \in 1..MaxManga : clickRemoveCap(e)
    \/ clickConfirm
    \/ \E button \in {"cancel", "cross"} : clickCancelConfirm(button)
    \/ \E option \in SortOptions : changeSortOption(option)

Spec == Init /\ [][Next]_vars

\* Direct calls of handleChapterUpdate with an amount other than the 1 the
\* `actions` table passes.
NextApi ==
    \/ Next
    \/ \E e \in 1..MaxManga, operation \in {"+", "-"}, amount \in 2..MaxAmount :
          handleChapterUpdate(e, operation, amount)

SpecApi == Init /\ [][NextApi]_vars

\* ------------------------------------------------------- image load errors
\* The capturing error listener of #mangaListContainer for an error event of
\* the <img> of container[e].  `manga.isImageWorking` is read without a null
\* check: with no owner the listener ends in a TypeError and changes nothing.
\* Otherwise, when the flag is set, handleImageError puts the placeholder in
\* the image and the flag is cleared; no saveMangas follows.
imageError(e) ==
    /\ Count
    /\ e \in DOMAIN container
    /\ LET manga == getClosestManga(e)
       IN  IF manga = 0
           THEN /\ last' = [op |-> "imageError", manga |-> 0, result |-> "TypeError",
                            rebuilt |-> FALSE]
                /\ UNCHANGED <<heap, container>>
           ELSE IF heap[manga].isImageWorking
           THEN /\ container' = [container EXCEPT ![e].src = handleImageTheme]
                /\ heap' = [heap EXCEPT ![manga].isImageWorking = FALSE]
                /\ last' = [op |-> "imageError", manga |-> manga, result |-> "fallback",
                            rebuilt |-> FALSE]
           ELSE /\ last' = [op |-> "imageError", manga |-> manga, result |-> "ignored",
                            rebuilt |-> FALSE]
                /\ UNCHANGED <<heap, container>>
    /\ UNCHANGED <<scroll, mangaList, form, pending, alertModal, confirmDialog, reloadDialog,
                   frames, sortOption, storage, now>>

\* The popup with images that may fail to load.
NextImage ==
    \/ Next
    \/ \E e \in 1..MaxManga : imageError(e)

SpecImage == Init /\ [][NextImage]_vars

\* ------------------------------------------------- the renderer alone
\* A list of n records as the storage gateway may return it.
RenderManga(i) ==
    [image |-> "", title |-> "M" \o ToString(i), link |-> "", isImageWorking |-> TRUE,
     readChapters |-> 0, favorite |-> FALSE, dayAdded |-> 0, lastRead |-> 0]

Reverse(list) == [k \in DOMAIN list |-> list[Len(list) + 1 - k]]

InitRender ==
    /\ \E n \in 0..MaxRender :
          /\ heap = [i \in 1..n |-> RenderManga(i)]
          /\ mangaList = [i \in 1..n |-> i]
          /\ storage = [i \in 1..n |-> RenderManga(i)]
    /\ container = <<>>
    /\ form = EmptyForm
    /\ pending = <<>>
    /\ alertModal = [shown |-> FALSE, text |-> ""]
    /\ confirmDialog = HiddenDialog
    /\ reloadDialog = HiddenDialog
    /\ frames = <<>>
    /\ sortOption = "default"
    /\ now = 1
    /\ scroll = HiddenBlurs
    /\ last = [op |-> "init", manga |-> 0, result |-> "", rebuilt |-> FALSE]
    /\ steps = 0

\* A call loadMangas(inputList, batchSize).  `last` keeps the arguments and
\* whether no batch of an earlier call was still scheduled.
callLoadMangas(inputList, batchSize) ==
    /\ Len(frames) < MaxLoads
    /\ LET view == loadMangas(inputList, batchSize, frames, heap)
       IN  /\ container' = view.container
           /\ frames' = view.frames
           /\ scroll' = BlurOnLoad(scroll, view.container, now)
    /\ confirmDialog' = DetachAll(confirmDialog)
    /\ last' = [op |-> "loadMangas", manga |-> 0,
                result |-> [list |-> inputList, batch |-> batchSize, alone |-> frames = <<>>],
                rebuilt |-> TRUE]
    /\ UNCHANGED <<mangaList, heap, form, pending, alertModal, reloadDialog,
                   sortOption, storage, now, steps>>

\* The callbacks of one animation frame: every scheduled loadBatch runs once,
\* in the order of the requests; what they schedule waits for the next frame.
RECURSIVE RunFrame(_, _, _)
RunFrame(cont, queue, scheduled) ==
    IF queue = <<>> THEN [container |-> cont, frames |-> scheduled]
    ELSE CHOOSE r \in {RunFrame(b.container, Tail(queue), scheduled \o b.scheduled) :
                          b \in {loadBatch(Head(queue), cont, heap)}} : TRUE

animationFrame ==
    /\ frames # <<>>
    /\ \E r \in {RunFrame(container, frames, <<>>)} :
          /\ container' = r.container
          /\ frames' = r.frames
    /\ UNCHANGED <<scroll, mangaList, heap, form, pending, alertModal, confirmDialog, reloadDialog,
                   sortOption, storage, now, last, steps>>

NextRender ==
    \/ \E batchSize \in 1..MaxBatch : callLoadMangas(mangaList, batchSize)
    \/ \E batchSize \in 1..MaxBatch : callLoadMangas(Reverse(mangaList), batchSize)
    \/ animationFrame

SpecRender == InitRender /\ [][NextRender]_vars

\* The browser runs the callbacks of requestAnimationFrame at its next frame.
SpecRenderFair == SpecRender /\ WF_vars(animationFrame)

\* ------------------------------------------- generateUniqueTitle alone
\* The titles a list may hold when generateUniqueTitle is called.
TitlePool == {"A", "B"} \cup {"A (" \o ToString(n) \o ")" : n \in 1..MaxSuffix}

\* the lists of distinct titles of the pool, in every order
TitleLists ==
    {t \in UNION {[1..n -> TitlePool] : n \in 0..Cardinality(TitlePool)} :
        \A i, j \in DOMAIN t : i # j => t[i] # t[j]}

InitTitle ==
    /\ \E t \in TitleLists :
          /\ heap = [i \in DOMAIN t |-> [RenderManga(i) EXCEPT !.title = t[i]]]
          /\ mangaList = [i \in DOMAIN t |-> i]
          /\ storage = [i \in DOMAIN t |-> [RenderManga(i) EXCEPT !.title = t[i]]]
    /\ container = <<>>
    /\ form = EmptyForm
    /\ pending = <<>>
    /\ alertModal = [shown |-> FALSE, text |-> ""]
    /\ confirmDialog = HiddenDialog
    /\ reloadDialog = HiddenDialog
    /\ frames = <<>>
    /\ sortOption = "default"
    /\ now = 1
    /\ scroll = HiddenBlurs
    /\ last = [op |-> "init", manga |-> 0, result |-> "", rebuilt |-> FALSE]
    /\ steps = 0

\* A call generateUniqueTitle(title), as getMangaFormData makes it with the
\* tab's title; `last` keeps the argument and the answer.
callGenerateUniqueTitle(title) ==
    /\ last' = [op |-> "generateUniqueTitle", manga |-> 0,
                result |-> [title |-> title, answer |-> generateUniqueTitle(title)],
                rebuilt |-> FALSE]
    /\ UNCHANGED <<scroll, mangaList, heap, form, pending, alertModal, confirmDialog, reloadDialog,
                   container, frames, sortOption, storage, now, steps>>

NextTitle == \E title \in {"", "A", "B"} : callGenerateUniqueTitle(title)

SpecTitle == InitTitle /\ [][NextTitle]_vars

\* --------------------------------------------- the container's click listener
\* The ids of the `actions` table, and ids (or none) of other elements of a
\* .manga-item.
ActionIds == {"fav", "delete", "edit", "addCap", "removeCap"}

ElementIds == ActionIds \cup {"chapter-count", "manga-title", ""}

\* The click listener of #mangaListContainer for a click inside container[e]
\* on an element whose resolved id is `id`: it returns when getClosestManga
\* finds no manga or the table has no entry for the id.
clickListener(e, id) ==
    \/ id = "fav" /\ clickFav(e)
    \/ id = "delete" /\ clickDelete(e)
    \/ id = "edit" /\ clickEdit(e)
    \/ id = "addCap" /\ clickAddCap(e)
    \/ id = "removeCap" /\ clickRemoveCap(e)
    \/ /\ Count
       /\ e \in DOMAIN container
       /\ getClosestManga(e) = 0 \/ id \notin ActionIds
       /\ last' = [op |-> "click", manga |-> getClosestManga(e), result |-> id,
                   rebuilt |-> FALSE]
       /\ UNCHANGED <<scroll, mangaList, heap, form, pending, alertModal, confirmDialog, reloadDialog,
                      container, frames, sortOption, storage, now>>

\* Lists of at most MaxManga records, rebuilt by loadMangas in batches while
\* the user clicks in the container and answers the delete dialog, MaxClicks
\* times in all.
InitClick == InitRender /\ Len(mangaList) <= MaxManga

NextClick ==
    \/ NextRender
    \/ steps < MaxClicks /\ \E e \in DOMAIN container, id \in ElementIds : clickListener(e, id)
    \/ steps < MaxClicks /\ clickConfirm

SpecClick == InitClick /\ [][NextClick]_vars

\* ------------------------------------------------------- long titles
\* the title of n characters c
RECURSIVE Repeat(_, _)
Repeat(c, n) == IF n = 0 THEN "" ELSE c \o Repeat(c, n - 1)

\* One or two records with titles of 1 to MaxTitleLen characters, not yet
\* rendered.
InitTitleText ==
    /\ \E n \in 1..2 : \E len \in [1..n -> 1..MaxTitleLen] :
          /\ heap = [i \in 1..n |-> [RenderManga(i) EXCEPT
                                        !.title = Repeat(IF i = 1 THEN "a" ELSE "b", len[i])]]
          /\ mangaList = [i \in 1..n |-> i]
          /\ storage = [i \in 1..n |-> [RenderManga(i) EXCEPT
                                           !.title = Repeat(IF i = 1 THEN "a" ELSE "b", len[i])]]
    /\ container = <<>>
    /\ form = EmptyForm
    /\ pending = <<>>
    /\ alertModal = [shown |-> FALSE, text |-> ""]
    /\ confirmDialog = HiddenDialog
    /\ reloadDialog = HiddenDialog
    /\ frames = <<>>
    /\ sortOption = "default"
    /\ now = 1
    /\ scroll = HiddenBlurs
    /\ last = [op |-> "init", manga |-> 0, result |-> "", rebuilt |-> FALSE]
    /\ steps = 0

SpecTitleText == InitTitleText /\ [][NextRender]_vars

\* ------------------------------------------------- scrolling and deleting
\* The times that pass between two events of SpecScroll: just under and
\* exactly debounce's wait.
Gaps == {DefaultWait - 1, DefaultWait}

\* The scroll listener for a scroll of the user to the position pos: the
\* debounced handleBlur is called.
scrollEvent(pos) ==
    /\ Count
    /\ pos \in 0..MaxScrollTop(container)
    /\ pos # scroll.scrollTop
    /\ now + DefaultWait <= MaxScrollTime
    /\ scroll' = debounced([scroll EXCEPT !.scrollTop = pos], now)
    /\ last' = [op |-> "scroll", manga |-> 0, result |-> ToString(pos), rebuilt |-> FALSE]
    /\ UNCHANGED <<mangaList, heap, form, pending, alertModal, confirmDialog, reloadDialog,
                   container, frames, sortOption, storage, now>>

\* The callback of a timer that is due: `() => func(...args)`, handleBlur.
timeoutCallback ==
    /\ \E t \in scroll.timers :
          /\ t.due <= now
          /\ scroll' = handleBlur([scroll EXCEPT !.timers = @ \ {t}, !.calls = @ + 1],
                                  container)
          /\ last' = [op |-> "handleBlur", manga |-> 0, result |-> ToString(t.id),
                      rebuilt |-> FALSE]
    /\ UNCHANGED <<mangaList, heap, form, pending, alertModal, confirmDialog, reloadDialog,
                   container, frames, sortOption, storage, now, steps>>

\* Time passes, up to the moment the next timer is due: by one of Gaps, or
\* to that moment.
Advance(t) ==
    /\ now < t
    /\ t <= MaxScrollTime
    /\ \A timer \in scroll.timers : t <= timer.due
    /\ now' = t
    /\ UNCHANGED <<mangaList, heap, form, pending, alertModal, confirmDialog, reloadDialog,
                   container, frames, sortOption, storage, scroll, last, steps>>

\* The popup after startup with a list of up to MaxScrollList records, all
\* rendered.  loadMangas ran handleBlur on the first batch; initializeBlur's
\* frame came before the list was loaded, or after it was rendered.
InitScroll ==
    /\ \E n \in 0..MaxScrollList :
          /\ heap = [i \in 1..n |-> RenderManga(i)]
          /\ mangaList = [i \in 1..n |-> i]
          /\ storage = [i \in 1..n |-> RenderManga(i)]
          /\ container = [i \in 1..n |-> createMangaElement(i, ((i - 1) \div DefaultBatch) + 1,
                                                            i, [j \in 1..n |-> RenderManga(j)])]
          /\ scroll \in {HiddenBlurs, initializeBlur(HiddenBlurs, [i \in 1..n |-> i])}
    /\ form = EmptyForm
    /\ pending = <<>>
    /\ alertModal = [shown |-> FALSE, text |-> ""]
    /\ confirmDialog = HiddenDialog
    /\ reloadDialog = HiddenDialog
    /\ frames = <<>>
    /\ sortOption = "default"
    /\ now = 1
    /\ last = [op |-> "init", manga |-> 0, result |-> "", rebuilt |-> FALSE]
    /\ steps = 0

NextScroll ==
    \/ \E pos \in 0..MaxScrollList : scrollEvent(pos)
    \/ timeoutCallback
    \/ \E t \in {now + g : g \in Gaps} \cup {timer.due : timer \in scroll.timers} : Advance(t)
    \/ \E e \in DOMAIN container : clickDelete(e)
    \/ now + DefaultWait <= MaxScrollTime /\ clickConfirm

SpecScroll == InitScroll /\ [][NextScroll]_vars

\* Time passes and a timer that is due runs.
SpecScrollFair ==
    /\ SpecScroll
    /\ WF_vars(\E t \in {now + g : g \in Gaps} \cup {timer.due : timer \in scroll.timers} :
                  Advance(t))
    /\ WF_vars(timeoutCallback)

\* ------------------------------------------------------------------ claims
Titles == [i \in DOMAIN mangaList |-> heap[mangaList[i]].title]

\* C1: in every reachable state no two records of mangaList have the same
\* title.
UniqueTitles ==
    \A i, j \in DOMAIN mangaList : i # j => Titles[i] # Titles[j]

\* C1 witness: two records are in the list and a submission has just been
\* refused because its title is another record's.
UniqueTitlesWitness ==
    /\ Len(mangaList) = 2
    /\ last.op \in {"add", "update"}
    /\ last.result = "modal-unique-title-required"

\* C2: a create-mode submission whose title is the title of a record of the
\* store when addNewManga validates it shows the title-not-unique error and
\* leaves the list, every manga object and the saved list as they were.
DuplicateCreateRejected ==
    [][\A i \in 1..MaxPending, tab \in TabInfos :
          (addNewManga(i, tab) /\ isNameUsed(getMangaFormData(pending[i], tab).title))
          => /\ alertModal' = [shown |-> TRUE, text |-> "modal-unique-title-required"]
             /\ mangaList' = mangaList
             /\ heap' = heap
             /\ storage' = storage]_vars

\* C2 witness: addNewManga has just shown the title-not-unique error.
DuplicateCreateWitness ==
    /\ last.op = "add"
    /\ last.result = "modal-unique-title-required"
    /\ alertModal = [shown |-> TRUE, text |-> "modal-unique-title-required"]
    /\ mangaList # <<>>

\* C3: readChapters of every record is >= 0 in every reachable state, also
\* when handleChapterUpdate is called with an amount above 1.
ChaptersNeverNegative ==
    \A i \in DOMAIN mangaList : heap[mangaList[i]].readChapters >= 0

\* C4: a confirm click does not remove a record whose delete dialog was
\* cancelled, unless the dialog was opened for that record again since.
CancelledDeleteKeepsRecord ==
    [][clickConfirm =>
          \A k \in DOMAIN confirmDialog.confirm :
             LET l == confirmDialog.confirm[k]
                 reopened == \E j \in DOMAIN confirmDialog.confirm :
                                /\ ~confirmDialog.confirm[j].dismissed
                                /\ confirmDialog.confirm[j].manga = l.manga
             IN  (l.dismissed /\ ~reopened /\ l.manga \in Range(mangaList))
                 => l.manga \in Range(mangaList')]_vars

\* C5: at most one gated-action listener is registered on each confirm
\* button.
AtMostOneGatedHandler ==
    /\ Len(confirmDialog.confirm) <= 1
    /\ Len(reloadDialog.confirm) <= 1

\* C6: after every handler the saved list is the list in memory, record by
\* record.
EveryMutationSaved ==
    storage = StoreView(mangaList, heap)

\* C7: a step that changes the link or the readChapters of a manga object
\* sets its lastRead to the current time.
LastReadFollowsChange ==
    [][\A m \in DOMAIN heap :
          (heap'[m].link # heap[m].link \/ heap'[m].readChapters # heap[m].readChapters)
          => heap'[m].lastRead = now]_vars

\* C8: an increment click on a record with readChapters = n sets readChapters
\* to n+1 and lastRead to the current time; every element of the container
\* that shows the record is then labelled "Ch. " followed by n+1, and the
\* clicked element is one of them unless the click rebuilt the list.
IncrementSetsCountDateLabel ==
    [][\A e \in 1..MaxManga :
          clickAddCap(e) =>
             LET manga == getClosestManga(e)
                 n == heap[manga].readChapters
                 shown == {k \in DOMAIN container' : container'[k].title = heap'[manga].title}
             IN  /\ heap'[manga].readChapters = n + 1
                 /\ heap'[manga].lastRead = now
                 /\ sortOption # "chaptersRead" => e \in shown
                 /\ \A k \in shown : container'[k].chapters = "Ch. " \o ToString(n + 1)]_vars

\* C8 witness: an increment click has taken a record from 1 to 2 and its
\* element shows "Ch. 2".
IncrementWitness ==
    /\ last.op = "+"
    /\ last.result = "1"
    /\ heap[last.manga].readChapters = 2
    /\ heap[last.manga].lastRead = now
    /\ \E k \in DOMAIN container :
          container[k].title = heap[last.manga].title /\ container[k].chapters = "Ch. 2"

\* C9: a decrement click on a record with readChapters = n >= 1 sets
\* readChapters to n-1 and lastRead to the current time and changes nothing
\* else: no other field of the record, no other manga object, not the list.
DecrementFrame ==
    [][\A e \in 1..MaxManga :
          (clickRemoveCap(e) /\ heap[getClosestManga(e)].readChapters >= 1) =>
             LET manga == getClosestManga(e)
                 n == heap[manga].readChapters
             IN  /\ heap'[manga] = [heap[manga] EXCEPT !.readChapters = n - 1, !.lastRead = now]
                 /\ \A other \in DOMAIN heap \ {manga} : heap'[other] = heap[other]
                 /\ DOMAIN heap' = DOMAIN heap
                 /\ mangaList' = mangaList]_vars

\* C9 witness: a decrement click has taken a record from 1 to 0 at a time
\* later than its previous lastRead.
DecrementWitness ==
    /\ last.op = "-"
    /\ last.result = "1"
    /\ heap[last.manga].readChapters = 0
    /\ heap[last.manga].lastRead = now
    /\ heap[last.manga].dayAdded < now

\* The latest loadMangas call, when no batch of an earlier call was scheduled
\* as it started.
AloneRequest == last.op = "loadMangas" /\ last.result.alone

\* What a rebuild that runs alone has put in the container: a prefix of the
\* list, in list order, record k by append number ceil(k / batchSize); all of
\* the list once nothing is scheduled, and else the appends so far are full.
RenderedSoFar ==
    AloneRequest =>
        LET list == last.result.list
            b == last.result.batch
        IN  /\ Len(container) <= Len(list)
            /\ \A k \in DOMAIN container :
                  /\ container[k].title = heap[list[k]].title
                  /\ container[k].batch = ((k - 1) \div b) + 1
            /\ IF frames = <<>> THEN Len(container) = Len(list)
               ELSE /\ Len(frames) = 1
                    /\ Len(container) = Appends(container) * b
                    /\ Len(container) < Len(list)

\* C10: loadMangas(list, b) with no other rebuild renders every record once,
\* in list order, in appends of b records except a shorter last one, one
\* append per animation frame, and the rebuild finishes.
BatchedRebuild ==
    /\ []RenderedSoFar
    /\ [][(AloneRequest /\ animationFrame) =>
             Appends(container') = Appends(container) + 1]_vars
    /\ AloneRequest ~> (frames = <<>> \/ ~AloneRequest)

\* C10 witness: 7 records with batchSize 3 are rendered by appends of 3, 3
\* and 1.
BatchedRebuildWitness ==
    /\ AloneRequest
    /\ last.result.batch = 3
    /\ Len(last.result.list) = 7
    /\ frames = <<>>
    /\ [k \in DOMAIN container |-> container[k].batch] = <<1, 1, 1, 2, 2, 2, 3>>

\* C11: an edit submission that writes a manga writes one that is still in the
\* list and is as it was when the submission started.
SubmissionWritesUnchangedRecord ==
    [][\A i \in 1..MaxPending, tab \in TabInfos :
          (updateMangaDetails(i, tab) /\ heap' # heap)
          => /\ pending[i].manga \in Range(mangaList)
             /\ heap[pending[i].manga] = pending[i].seen]_vars

\* What validation is to answer for the data of a submission, stated on the
\* titles of the list.
ExpectedVerdict(title, originalTitle) ==
    IF title = "" THEN "modal-title-required"
    ELSE IF title # originalTitle /\ \E k \in DOMAIN mangaList : Titles[k] = title
         THEN "modal-unique-title-required"
    ELSE "null"

\* C12: a create or edit submission is refused with title-required iff its
\* title is empty, else with title-not-unique iff the title is not the edited
\* manga's own and is the title of a record, and is not refused otherwise; a
\* refused one leaves list, objects and saved list alone, and an edit that
\* keeps its own title is never refused as a duplicate.
ValidationVerdict ==
    [][\A i \in 1..MaxPending, tab \in TabInfos :
          (updateMangaDetails(i, tab) \/ addNewManga(i, tab)) =>
             LET data == getMangaFormData(pending[i], tab)
                 own == IF pending[i].kind = "update" THEN heap[pending[i].manga].title ELSE ""
                 expected == ExpectedVerdict(data.title, own)
             IN  /\ last'.result \in {"saved", "reload"} <=> expected = "null"
                 /\ expected # "null" =>
                       /\ last'.result = expected
                       /\ alertModal' = [shown |-> TRUE, text |-> expected]
                       /\ mangaList' = mangaList /\ heap' = heap /\ storage' = storage
                 /\ (pending[i].kind = "update" /\ data.title = own /\ own # "")
                       => last'.result # "modal-unique-title-required"]_vars

\* C12 witness: an edit that kept the title of its manga has been saved, and
\* the title is that of a record of the list.
ValidationVerdictWitness ==
    /\ last.op = "update"
    /\ last.result = "saved"
    /\ last.manga \in Range(mangaList)
    /\ heap[last.manga].title = "A"
    /\ heap[last.manga].lastRead = now
    /\ heap[last.manga].link = "y"

\* C13: a create or edit submission that fails validation shows the error
\* modal and changes nothing else: not the list, the objects, the saved list,
\* the container or the scheduled batches, and the form keeps its fields, its
\* mode, its target title and its visibility.
FailedValidationFrame ==
    [][\A i \in 1..MaxPending, tab \in TabInfos :
          ((updateMangaDetails(i, tab) \/ addNewManga(i, tab))
             /\ last'.result \in {"modal-title-required", "modal-unique-title-required"})
          => /\ alertModal' = [shown |-> TRUE, text |-> last'.result]
             /\ UNCHANGED <<mangaList, heap, storage, container, frames, form>>
             /\ ~last'.rebuilt]_vars

\* C13 witness: an edit of A was refused and the form is still the open edit
\* form of A.
FailedValidationWitness ==
    /\ last.op = "update"
    /\ last.result \in {"modal-title-required", "modal-unique-title-required"}
    /\ alertModal.shown
    /\ form.shown /\ form.editMode /\ form.mangaTitle = "A"

\* C14: an edit submission whose data equals the manga in image, title,
\* readChapters and favorite leaves every object and the saved list alone;
\* and when handleLinkReload resumes, the reload dialog is shown if the tab's
\* URL is not the manga's link and is left as it was otherwise.
UnchangedEditDoesNotSave ==
    [][\A i \in 1..MaxPending, tab \in TabInfos :
          /\ updateMangaDetails(i, tab) =>
                LET data == getMangaFormData(pending[i], tab)
                    manga == heap[pending[i].manga]
                IN  (/\ data.image = manga.image
                     /\ data.title = manga.title
                     /\ data.readChapters = manga.readChapters
                     /\ data.favorite = manga.favorite)
                    => heap' = heap /\ storage' = storage
          /\ handleLinkReload(i, tab) =>
                IF tab.url # heap[pending[i].manga].link
                THEN reloadDialog'.shown
                ELSE reloadDialog' = reloadDialog]_vars

\* C15: a click on the confirm button, the cancel button or the close icon of
\* the delete dialog or of the link-reload dialog, whenever the dialog is
\* shown, leaves that dialog hidden.
DialogHiddenAfterAnswer ==
    [][/\ (clickConfirm \/ \E button \in {"cancel", "cross"} : clickCancelConfirm(button))
             => ~confirmDialog'.shown
       /\ (clickConfirmReload \/ \E button \in {"cancel", "cross"} : clickCancelReload(button))
             => ~reloadDialog'.shown]_vars

\* C16: a handler that changes the list or a manga object calls the list
\* rebuild.
MutationRequestsRebuild ==
    [][(mangaList' # mangaList \/ heap' # heap) => last'.rebuilt]_vars

\* C18: an edit-mode submission whose target title is the title of no record
\* changes nothing: not the list, the objects or the saved list, and no
\* handler is left suspended that could.
VanishedTargetAborts ==
    [][(/\ handleFormSubmission
        /\ form.editMode /\ form.mangaTitle # ""
        /\ \A k \in DOMAIN mangaList : Titles[k] # form.mangaTitle)
       => UNCHANGED <<mangaList, heap, storage, pending, container, alertModal>>]_vars

\* C18 witness: the edit form of A was submitted after A was deleted, with
\* another record still in the list.
VanishedTargetWitness ==
    /\ last.op = "submit"
    /\ last.result = "not-found"
    /\ form.editMode /\ form.mangaTitle = "A"
    /\ Len(mangaList) = 1
    /\ pending = <<>>

\* The chapter count the text of the input stands for: its value when it is a
\* non-empty run of decimal digits, 0 otherwise.
CoercedChapters(chars) ==
    IF chars # <<>> /\ \A k \in DOMAIN chars : IsDigit(chars[k])
    THEN DigitsValue(chars, 0)
    ELSE 0

\* C20: the record a create or edit submission writes has readChapters = k
\* when the chapter input is the non-negative integer k, and 0 when the input
\* is empty, negative or not a number.
ChaptersCoerced ==
    [][\A i \in 1..MaxPending, tab \in TabInfos :
          ((updateMangaDetails(i, tab) \/ addNewManga(i, tab)) /\ last'.result = "saved")
          => heap'[last'.manga].readChapters = CoercedChapters(pending[i].readChapters)]_vars

\* C17: generateUniqueTitle(t) answers t when no record has title t, and
\* otherwise "t (n)" for the least n >= 1 such that no record has that title;
\* its answer is the title of no record.
GeneratedTitleIsFirstFree ==
    last.op = "generateUniqueTitle" =>
        LET t == last.result.title
            answer == last.result.answer
            used(x) == \E k \in DOMAIN mangaList : Titles[k] = x
            suffixed(n) == t \o " (" \o ToString(n) \o ")"
        IN  /\ ~used(answer)
            /\ IF ~used(t) THEN answer = t
               ELSE \E n \in 1..(Len(mangaList) + 1) :
                       /\ answer = suffixed(n)
                       /\ \A k \in 1..(n - 1) : used(suffixed(k))

\* C17 witness: with "A", "A (1)" and "A (2)" in the list the answer for "A"
\* is "A (3)".
GeneratedTitleWitness ==
    /\ last.op = "generateUniqueTitle"
    /\ last.result = [title |-> "A", answer |-> "A (3)"]
    /\ Len(mangaList) >= 3

\* C19: a click in a list item whose id is not in the actions table, or whose
\* element shows the title of no record, leaves the list, the objects, the
\* saved list, the form, the suspended handlers and the visibility of the
\* modal and of both dialogs as they were.
IgnoredClickChangesNothing ==
    [][\A e \in DOMAIN container, id \in ElementIds :
          (/\ clickListener(e, id)
           /\ \/ id \notin ActionIds
              \/ \A k \in DOMAIN mangaList : Titles[k] # container[e].title)
          => /\ UNCHANGED <<mangaList, heap, storage, form, pending>>
             /\ alertModal'.shown = alertModal.shown
             /\ confirmDialog'.shown = confirmDialog.shown
             /\ reloadDialog'.shown = reloadDialog.shown]_vars

\* C19 witness: the delete control was clicked in an element whose record is
\* no longer in the list, and the dialog stayed hidden.
IgnoredClickWitness ==
    /\ last.op = "click"
    /\ last.manga = 0
    /\ last.result = "delete"
    /\ ~confirmDialog.shown
    /\ mangaList # <<>>

\* C21: once nothing is scheduled any more, the container shows the list of
\* the latest loadMangas call, every record once and in list order, also when
\* batches of an earlier call were still scheduled as that call started.
LatestRebuildWins ==
    (last.op = "loadMangas" /\ frames = <<>>) =>
        LET list == last.result.list
        IN  /\ Len(container) = Len(list)
            /\ \A k \in DOMAIN container : container[k].title = heap[list[k]].title

\* C22: the record a submission writes carries the image and the favorite
\* flag the form held at the submit event, and its title and link when these
\* fields were filled in, whatever happened to the form while the submission
\* waited for the tab info.
SubmissionIsSnapshot ==
    [][\A i \in DOMAIN pending, tab \in TabInfos :
          ((addNewManga(i, tab) \/ updateMangaDetails(i, tab)) /\ last'.result = "saved")
          => LET written == heap'[last'.manga]
             IN  /\ written.image = pending[i].submitted.image
                 /\ written.favorite = pending[i].submitted.favorite
                 /\ pending[i].title # "" => written.title = pending[i].title
                 /\ pending[i].link # "" => written.link = pending[i].link]_vars

\* C23: an error event of an element's image never ends in an exception; for
\* a manga whose isImageWorking is set it clears the flag and puts the
\* placeholder in the image, for a manga whose flag is cleared it changes
\* nothing; and every element rendered while the flag is cleared shows the
\* placeholder.
ImageFallbackOnce ==
    [][/\ \A e \in DOMAIN container :
             imageError(e) =>
                LET manga == getClosestManga(e)
                IN  /\ last'.result # "TypeError"
                    /\ manga # 0 =>
                          IF heap[manga].isImageWorking
                          THEN /\ ~heap'[manga].isImageWorking
                               /\ container'[e].src = handleImageTheme
                          ELSE UNCHANGED <<heap, container>>
       /\ \A k \in DOMAIN container' :
             (/\ last'.rebuilt
              /\ getClosestManga(k)' # 0
              /\ ~heap'[getClosestManga(k)'].isImageWorking)
             => container'[k].src = handleImageTheme]_vars

\* C24: while no timer of the scroll listener is waiting, the bottom blur is
\* visible only if the list has more than 3 records and the container is not
\* scrolled to its bottom, and the top blur only if the list has more than 3
\* records and the container is not scrolled to its top.
BlurOnlyWhenOverflowing ==
    scroll.timers = {} =>
        /\ scroll.bottomBlur =>
              /\ Len(mangaList) > 3
              /\ scroll.scrollTop + Viewport < scrollHeight(container)
        /\ scroll.topBlur =>
              /\ Len(mangaList) > 3
              /\ scroll.scrollTop # 0

\* C25: at most one timer of the debounced scroll listener is waiting;
\* handleBlur is run by a timer only when DefaultWait time units have passed
\* since the latest scroll event, and at most once since that event; and
\* after every scroll event a moment comes when no timer is waiting and
\* handleBlur has run exactly once since the latest event.
DebouncedOnce ==
    /\ [](Cardinality(scroll.timers) <= 1 /\ scroll.calls <= 1)
    /\ [][timeoutCallback => now >= scroll.lastEvent + DefaultWait]_vars
    /\ (scroll.timers # {}) ~> (scroll.timers = {} /\ scroll.calls = 1)

\* C25 witness: two scroll events less than DefaultWait apart, and one run
\* of handleBlur, DefaultWait after the second.
DebouncedOnceWitness ==
    /\ last.op = "handleBlur"
    /\ scroll.created = 2
    /\ scroll.lastEvent = DefaultWait
    /\ now = 2 * DefaultWait
    /\ scroll.calls = 1
    /\ scroll.timers = {}

\* C26: every rendered element shows the whole title when the title has at
\* most 20 characters; a text that differs from the title belongs to a title
\* of more than 20 characters and is a prefix of it followed by "..."; and
\* the text is never longer than the title.
TitleEllipsis ==
    \A k \in DOMAIN container :
        LET title == container[k].title
            text == container[k].text
        IN  /\ Len(title) <= 20 => text = title
            /\ text # title =>
                  /\ Len(title) > 20
                  /\ \E n \in 0..Len(title) : text = SubSeq(title, 1, n) \o "..."
            /\ Len(text) <= Len(title)

=============================================================================
